---- MODULE Spec2Model ----
(***************************************************************************)
(* TeamHub frontend: the task board's drag-and-drop reconciler             *)
(* (src/src/components/pages/tasks/task-board.tsx) and the bulk-archive    *)
(* batch runner (src/src/components/pages/projects/bulk-archive-dialog.tsx)*)
(* as state machines.                                                      *)
(*                                                                         *)
(* Indices are the 0-based indices of the TypeScript code; the sequence    *)
(* helpers below convert to TLA+'s 1-based sequences.                      *)
(*                                                                         *)
(* The data-fetching library is taken at its contract: a mutation's        *)
(* onSuccess/onError runs once when its request settles and reads the      *)
(* props of the latest render; invalidateQueries leads to one later        *)
(* delivery of the server's list to the component.                         *)
(***************************************************************************)
EXTENDS Integers, Sequences, FiniteSets, TLC

\* ------------------------------------------------------------- bounds

\* Number of tasks on the explored boards.
NumTasks == 2
\* Number of board columns (a prefix of BOARD_COLUMNS) the explored boards use.
NumColumns == 2
\* Most status-update requests in flight at once in the explored runs.
MaxInFlight == 2
\* Number of tasks on the boards explored for reordering.
ReorderTasks == 3

\* ------------------------------------------------------- board: data

BOARD_COLUMNS == <<"TODO", "IN_PROGRESS", "IN_REVIEW", "DONE">>

Statuses == {BOARD_COLUMNS[i] : i \in 1..NumColumns}

TaskIds == <<"T1", "T2", "T3", "T4">>

TaskSet == {TaskIds[i] : i \in 1..NumTasks}

\* Messages a failing request can carry (Scenario B uses the first).
ErrorMessages == {"network error", "forbidden"}

NONE == "none"

\* What an out-of-range array read yields in JavaScript.
Undefined == [id |-> "undefined", status |-> "undefined"]

\* The task list the server returns for a status assignment, in id order.
TaskList(f) == [i \in 1..NumTasks |-> [id |-> TaskIds[i], status |-> f[TaskIds[i]]]]

\* ---------------------------------------------- JavaScript array helpers

Min(a, b) == IF a < b THEN a ELSE b

\* arr[i]
ElemAt(arr, i) == IF i >= 0 /\ i < Len(arr) THEN arr[i + 1] ELSE Undefined

\* arr after arr.splice(i, 1)
SpliceOut(arr, i) ==
  IF i >= 0 /\ i < Len(arr)
  THEN SubSeq(arr, 1, i) \o SubSeq(arr, i + 2, Len(arr))
  ELSE arr

\* arr after arr.splice(i, 0, x): an index past the end is clamped to the end
SpliceIn(arr, i, x) ==
  LET j == Min(i, Len(arr))
  IN SubSeq(arr, 1, j) \o <<x>> \o SubSeq(arr, j + 1, Len(arr))

\* arr.filter((t) => t.id !== taskId)
FilterOutId(arr, taskId) == SelectSeq(arr, LAMBDA t : t.id # taskId)

Range(arr) == {arr[i] : i \in 1..Len(arr)}

\* ------------------------------------------------------ board: state

VARIABLES
  server,          \* the backend's status of every task
  tasks,           \* the `tasks` prop: the last task list delivered to the board
  boardState,      \* useState: status -> ordered column of tasks
  dragState,       \* useState: the pending move, or NoDrag (null)
  dropTarget,      \* useState: the highlighted drop target, or NoTarget (null)
  inflight,        \* status-update requests issued and not yet settled
  refreshPending,  \* the ["tasks"] query was invalidated and not yet refetched
  crashed,         \* a render threw: the component tree is gone
  toast,           \* the notification the last step passed to addToast
  last             \* the last handler that ran, with its arguments

VARIABLES
  projectServer,   \* the backend's status of every project
  projects,        \* the `projects` prop of the bulk-archive dialog
  open,            \* showBulkArchive of the projects page
  selectedIds,     \* useState: the selected project ids
  results,         \* useState: the results list, or NoResults (null)
  batch,           \* the bulk-archive mutation in flight, or NoBatch
  projectsStale,   \* query keys invalidated and not yet refetched
  batchToast,      \* the notification the last step passed to addToast
  batchLast        \* the last dialog handler that ran, with what it saw

VARIABLES
  hasWindow,       \* typeof window !== "undefined": the code runs in a browser
  localStorage,    \* the browser's localStorage: key -> value, or NONE (null)
  returnUrl,       \* router.query.returnUrl of the login page, or NONE
  isLoading,       \* useState of the login page
  error,           \* useState of the login page: the error shown, or NONE (null)
  route,           \* the last target of router.push, or NONE
  authLast         \* the last auth operation that ran, with its token

VARIABLES
  pointer          \* the browser's drag gesture on the board, or NoPointer

boardVars == <<server, tasks, boardState, dragState, dropTarget, inflight,
               refreshPending, crashed, toast, last>>

batchVars == <<projectServer, projects, open, selectedIds, results, batch,
               projectsStale, batchToast, batchLast>>

authVars == <<hasWindow, localStorage, returnUrl, isLoading, error, route, authLast>>

gestureVars == <<pointer>>

vars == <<boardVars, batchVars, authVars, gestureVars>>

NoDrag == [taskId |-> NONE, sourceStatus |-> NONE, sourceIndex |-> -1]

NoTarget == [status |-> NONE, index |-> -1]

NoToast == [title |-> NONE, description |-> NONE, variant |-> NONE]

Step(op, taskId, from, to, index, err) ==
  [op |-> op, taskId |-> taskId, from |-> from, to |-> to, index |-> index, err |-> err,
   invalidated |-> 0]

\* ---------------------------------------------- board: pure functions

\* Mutant of groupTasksByStatus: `groups[task.status] = [task]` in place of
\* push, so a column keeps only the last task with its status.
groupTasksKeepingLast(ts) ==
  [s \in Statuses |->
     LET column == SelectSeq(ts, LAMBDA t : t.status = s)
     IN IF column = <<>> THEN <<>> ELSE <<column[Len(column)]>>]

\* groupTasksByStatus: one column per status, each in the order of the list.
groupTasksByStatus(ts) ==
  [s \in Statuses |-> SelectSeq(ts, LAMBDA t : t.status = s)]

\* Mutant of handleDragEnd: the insertion index is counted in the column as it
\* was before the removal, so a move towards the end lands one place early.
handleDragEndCountingRemoved(board, status, fromIndex, toIndex) ==
  LET columnTasks == board[status]
      moved == ElemAt(columnTasks, fromIndex)
      removed == SpliceOut(columnTasks, fromIndex)
      at == IF fromIndex < toIndex THEN toIndex - 1 ELSE toIndex
  IN [board EXCEPT ![status] = SpliceIn(removed, at, moved)]

\* handleDragEnd: the board after the same-column reorder.  splice(fromIndex, 1)
\* yields [] when fromIndex is past the end, and `moved` is then undefined.
handleDragEnd(board, status, fromIndex, toIndex) ==
  LET columnTasks == board[status]
      moved == ElemAt(columnTasks, fromIndex)
      removed == SpliceOut(columnTasks, fromIndex)
  IN [board EXCEPT ![status] = SpliceIn(removed, toIndex, moved)]

\* handleDrop, cross-column branch: the task read at the recorded index.
DraggedTask(board, drag) == ElemAt(board[drag.sourceStatus], drag.sourceIndex)

\* handleDrop, cross-column branch: newBoardState.
OptimisticMove(board, drag, targetStatus, targetIndex) ==
  LET task == DraggedTask(board, drag)
      updatedTask == [task EXCEPT !.status = targetStatus]
  IN [board EXCEPT
        ![drag.sourceStatus] = FilterOutId(board[drag.sourceStatus], drag.taskId),
        ![targetStatus] = SpliceIn(board[targetStatus], targetIndex, updatedTask)]

\* Mutant of RollbackBoard: onError that forgets to reset the board.
KeepBoard(ts, board) == board

\* statusMutation.onError: the board it sets.
RollbackBoard(ts, board) == groupTasksByStatus(ts)

\* statusMutation.onError: the notification it emits.
FailureToast(message) ==
  [title |-> "Failed to move task", description |-> message, variant |-> "destructive"]

\* BoardColumn / TaskCard render: task.id of an undefined entry throws.
RenderThrows(board) == \E s \in Statuses : Undefined \in Range(board[s])

\* Indices handleDrop can be given for a column: every insertion point.  The
\* column's own onDrop passes the last of them, its length.
DropIndices(board, status) == 0..Len(board[status])

\* ------------------------------------------------------ board: actions

\* A quiet step emits no notification.
Quiet == toast' = NoToast

\* Mutant of handleDragStart: a move that is already pending is kept, the new
\* drag start is ignored.
handleDragStartKeepingFirst(status, index) ==
  /\ ~crashed
  /\ index \in 0..(Len(boardState[status]) - 1)
  /\ dragState' = IF dragState # NoDrag
                  THEN dragState
                  ELSE [taskId |-> ElemAt(boardState[status], index).id,
                        sourceStatus |-> status, sourceIndex |-> index]
  /\ last' = Step("dragStart", ElemAt(boardState[status], index).id, status, NONE, index, NONE)
  /\ Quiet
  /\ UNCHANGED <<server, tasks, boardState, dropTarget, inflight, refreshPending, crashed>>
  /\ UNCHANGED <<batchVars, authVars>>

\* handleDragStart, called by a rendered card with its own id, column and index.
handleDragStart(status, index) ==
  /\ ~crashed
  /\ index \in 0..(Len(boardState[status]) - 1)
  /\ dragState' = [taskId |-> ElemAt(boardState[status], index).id,
                   sourceStatus |-> status, sourceIndex |-> index]
  /\ last' = Step("dragStart", ElemAt(boardState[status], index).id, status, NONE, index, NONE)
  /\ Quiet
  /\ UNCHANGED <<server, tasks, boardState, dropTarget, inflight, refreshPending, crashed>>
  /\ UNCHANGED <<batchVars, authVars>>

\* handleDragOver, called by a column with its own status and length.
handleDragOver(status, index) ==
  /\ ~crashed
  /\ index = Len(boardState[status])
  /\ dropTarget' = [status |-> status, index |-> index]
  /\ last' = Step("dragOver", NONE, NONE, status, index, NONE)
  /\ Quiet
  /\ UNCHANGED <<server, tasks, boardState, dragState, inflight, refreshPending, crashed>>
  /\ UNCHANGED <<batchVars, authVars>>

\* handleDrop with no pending move: `if (!dragState) return`.
DropWithoutDrag(targetStatus, targetIndex) ==
  /\ dragState = NoDrag
  /\ last' = Step("dropNoDrag", NONE, NONE, targetStatus, targetIndex, NONE)
  /\ UNCHANGED <<boardState, dragState, dropTarget, inflight, crashed>>

\* handleDrop, same column: handleDragEnd, then both pieces of drag state are
\* cleared.  The next render throws when the column holds an undefined entry.
DropSameColumn(targetStatus, targetIndex) ==
  /\ dragState # NoDrag
  /\ dragState.sourceStatus = targetStatus
  /\ boardState' = handleDragEnd(boardState, targetStatus, dragState.sourceIndex, targetIndex)
  /\ crashed' = RenderThrows(boardState')
  /\ dragState' = NoDrag
  /\ dropTarget' = NoTarget
  /\ last' = Step("dropSame", dragState.taskId, dragState.sourceStatus, targetStatus,
                  targetIndex, NONE)
  /\ UNCHANGED inflight

\* handleDrop, other column, nothing at the recorded index: `if (!task) return`.
DropMissingTask(targetStatus, targetIndex) ==
  /\ dragState # NoDrag
  /\ dragState.sourceStatus # targetStatus
  /\ DraggedTask(boardState, dragState) = Undefined
  /\ last' = Step("dropMissing", dragState.taskId, dragState.sourceStatus, targetStatus,
                  targetIndex, NONE)
  /\ UNCHANGED <<boardState, dragState, dropTarget, inflight, crashed>>

\* Mutant of DropOtherColumn: the request is issued but the pending move is
\* left in place.
DropOtherColumnKeepingDrag(targetStatus, targetIndex) ==
  /\ dragState # NoDrag
  /\ dragState.sourceStatus # targetStatus
  /\ DraggedTask(boardState, dragState) # Undefined
  /\ Len(inflight) < MaxInFlight
  /\ boardState' = OptimisticMove(boardState, dragState, targetStatus, targetIndex)
  /\ inflight' = Append(inflight, [taskId |-> dragState.taskId, status |-> targetStatus])
  /\ last' = Step("dropCross", dragState.taskId, dragState.sourceStatus, targetStatus,
                  targetIndex, NONE)
  /\ UNCHANGED <<dragState, dropTarget, crashed>>

\* handleDrop, other column: the optimistic update, then statusMutation.mutate.
DropOtherColumn(targetStatus, targetIndex) ==
  /\ dragState # NoDrag
  /\ dragState.sourceStatus # targetStatus
  /\ DraggedTask(boardState, dragState) # Undefined
  /\ Len(inflight) < MaxInFlight
  /\ boardState' = OptimisticMove(boardState, dragState, targetStatus, targetIndex)
  /\ inflight' = Append(inflight, [taskId |-> dragState.taskId, status |-> targetStatus])
  /\ dragState' = NoDrag
  /\ dropTarget' = NoTarget
  /\ last' = Step("dropCross", dragState.taskId, dragState.sourceStatus, targetStatus,
                  targetIndex, NONE)
  /\ UNCHANGED crashed

\* Mutant of handleDrop: the cross-column branch writes `task.status =
\* targetStatus` on the record itself instead of copying it, so the record of
\* the task list changes with it.
handleDropMutatingTask(targetStatus, targetIndex) ==
  /\ ~crashed
  /\ targetIndex \in DropIndices(boardState, targetStatus)
  /\ \/ DropWithoutDrag(targetStatus, targetIndex)
     \/ DropSameColumn(targetStatus, targetIndex)
     \/ DropMissingTask(targetStatus, targetIndex)
     \/ DropOtherColumn(targetStatus, targetIndex)
  /\ Quiet
  /\ tasks' = [k \in 1..Len(tasks) |->
                 IF /\ dragState # NoDrag
                    /\ dragState.sourceStatus # targetStatus
                    /\ tasks[k] = DraggedTask(boardState, dragState)
                 THEN [tasks[k] EXCEPT !.status = targetStatus]
                 ELSE tasks[k]]
  /\ UNCHANGED <<server, refreshPending>>
  /\ UNCHANGED <<batchVars, authVars>>

handleDrop(targetStatus, targetIndex) ==
  /\ ~crashed
  /\ targetIndex \in DropIndices(boardState, targetStatus)
  /\ \/ DropWithoutDrag(targetStatus, targetIndex)
     \/ DropSameColumn(targetStatus, targetIndex)
     \/ DropMissingTask(targetStatus, targetIndex)
     \/ DropOtherColumn(targetStatus, targetIndex)
  /\ Quiet
  /\ UNCHANGED <<server, tasks, refreshPending>>
  /\ UNCHANGED <<batchVars, authVars>>

\* handleDragCancel
handleDragCancel ==
  /\ ~crashed
  /\ dragState' = NoDrag
  /\ dropTarget' = NoTarget
  /\ last' = Step("dragCancel", NONE, NONE, NONE, -1, NONE)
  /\ Quiet
  /\ UNCHANGED <<server, tasks, boardState, inflight, refreshPending, crashed>>
  /\ UNCHANGED <<batchVars, authVars>>

\* Mutant of MutationSuccess: onSuccess that forgets invalidateQueries.
MutationSuccessWithoutInvalidate(k) ==
  /\ ~crashed
  /\ k \in 1..Len(inflight)
  /\ server' = [server EXCEPT ![inflight[k].taskId] = inflight[k].status]
  /\ inflight' = SpliceOut(inflight, k - 1)
  /\ last' = Step("success", inflight[k].taskId, NONE, inflight[k].status, -1, NONE)
  /\ Quiet
  /\ UNCHANGED <<tasks, boardState, dragState, dropTarget, refreshPending, crashed>>
  /\ UNCHANGED <<batchVars, authVars, gestureVars>>

\* The k-th request in flight succeeds: the backend stores the status and
\* statusMutation.onSuccess invalidates the ["tasks"] query.
MutationSuccess(k) ==
  /\ ~crashed
  /\ k \in 1..Len(inflight)
  /\ server' = [server EXCEPT ![inflight[k].taskId] = inflight[k].status]
  /\ inflight' = SpliceOut(inflight, k - 1)
  /\ refreshPending' = TRUE
  /\ last' = [Step("success", inflight[k].taskId, NONE, inflight[k].status, -1, NONE)
                EXCEPT !.invalidated = 1]
  /\ Quiet
  /\ UNCHANGED <<tasks, boardState, dragState, dropTarget, crashed>>
  /\ UNCHANGED <<batchVars, authVars, gestureVars>>

\* Mutant of MutationError: the invalidation sits in onSettled, so a failure
\* requests a refetch too.
MutationErrorInvalidating(k, message) ==
  /\ ~crashed
  /\ k \in 1..Len(inflight)
  /\ inflight' = SpliceOut(inflight, k - 1)
  /\ boardState' = RollbackBoard(tasks, boardState)
  /\ toast' = FailureToast(message)
  /\ refreshPending' = TRUE
  /\ last' = [Step("error", inflight[k].taskId, NONE, inflight[k].status, -1, message)
                EXCEPT !.invalidated = 1]
  /\ UNCHANGED <<server, tasks, dragState, dropTarget, crashed>>
  /\ UNCHANGED <<batchVars, authVars, gestureVars>>

\* The k-th request in flight fails with `message`: statusMutation.onError.
MutationError(k, message) ==
  /\ ~crashed
  /\ k \in 1..Len(inflight)
  /\ inflight' = SpliceOut(inflight, k - 1)
  /\ boardState' = RollbackBoard(tasks, boardState)
  /\ toast' = FailureToast(message)
  /\ last' = Step("error", inflight[k].taskId, NONE, inflight[k].status, -1, message)
  /\ UNCHANGED <<server, tasks, dragState, dropTarget, refreshPending, crashed>>
  /\ UNCHANGED <<batchVars, authVars, gestureVars>>

\* Mutant of TasksRefresh: the new list is delivered but the effect that
\* rebuilds the board is missing.
TasksRefreshWithoutSync ==
  /\ ~crashed
  /\ refreshPending
  /\ tasks' = TaskList(server)
  /\ refreshPending' = FALSE
  /\ last' = Step("refresh", NONE, NONE, NONE, -1, NONE)
  /\ Quiet
  /\ UNCHANGED <<server, boardState, dragState, dropTarget, inflight, crashed>>
  /\ UNCHANGED <<batchVars, authVars, gestureVars>>

\* The refetch asked for by invalidateQueries delivers the backend's list as the
\* new `tasks` prop; the effect on [tasks] rebuilds the board.
TasksRefresh ==
  /\ ~crashed
  /\ refreshPending
  /\ tasks' = TaskList(server)
  /\ boardState' = groupTasksByStatus(tasks')
  /\ refreshPending' = FALSE
  /\ last' = Step("refresh", NONE, NONE, NONE, -1, NONE)
  /\ Quiet
  /\ UNCHANGED <<server, dragState, dropTarget, inflight, crashed>>
  /\ UNCHANGED <<batchVars, authVars, gestureVars>>

\* ------------------------------------------------ board: drag gestures

\* No drag gesture is going on.
NoPointer == [item |-> NONE, source |-> NONE, over |-> NONE]

\* dragstart on a rendered card: the card calls onDragStart with its own id,
\* column and index.  The pointer is over the card's column.
onDragStart(status, index) ==
  /\ pointer = NoPointer
  /\ handleDragStart(status, index)
  /\ pointer' = [item |-> ElemAt(boardState[status], index).id,
                 source |-> status, over |-> status]

\* dragover on a column: `onDragOver(status, tasks.length)`.
onDragOver(status) ==
  /\ pointer # NoPointer
  /\ pointer.over \in {NONE, status}
  /\ handleDragOver(status, Len(boardState[status]))
  /\ pointer' = [pointer EXCEPT !.over = status]

\* dragleave on the column the pointer was over: `onDragLeave={onDragCancel}`.
onDragLeave(status) ==
  /\ pointer # NoPointer
  /\ pointer.over = status
  /\ handleDragCancel
  /\ pointer' = [pointer EXCEPT !.over = NONE]

\* drop on the column the pointer is over: `onDrop(status, tasks.length)`.
\* The gesture is over.
onDrop(status) ==
  /\ pointer # NoPointer
  /\ pointer.over = status
  /\ handleDrop(status, Len(boardState[status]))
  /\ pointer' = NoPointer

\* The button is released outside every column: the browser sends dragend to
\* the card, which has no handler for it.
DragEndsOutside ==
  /\ pointer # NoPointer
  /\ pointer.over = NONE
  /\ pointer' = NoPointer
  /\ UNCHANGED <<boardVars, batchVars, authVars>>

\* ------------------------------------------------ bulk archive: data

\* Number of projects in the explored project lists.
NumProjects == 3

ProjectIds == <<"A", "B", "C", "D">>

ProjectSet == {ProjectIds[i] : i \in 1..NumProjects}

ProjectStatuses == {"ACTIVE", "ARCHIVED", "COMPLETED"}

\* The project list the server returns for a status assignment, in id order.
ProjectList(f) ==
  [i \in 1..NumProjects |-> [id |-> ProjectIds[i], status |-> f[ProjectIds[i]]]]

\* useState<ArchiveResult[] | null>: null, or a list (an empty list is not null).
NoResults == [shown |-> FALSE, list |-> <<>>]

Results(list) == [shown |-> TRUE, list |-> list]

\* How one remote call can end: fulfilled, rejected with an Error carrying a
\* message, or rejected with a value that is no Error.
Pending == [kind |-> "pending", message |-> NONE]

Fulfilled == [kind |-> "ok", message |-> NONE]

Rejected(message) == [kind |-> "error", message |-> message]

RejectedNonError == [kind |-> "thrown", message |-> NONE]

Outcomes == {Fulfilled, RejectedNonError} \cup {Rejected(m) : m \in ErrorMessages}

\* The mutation in flight: the ids passed to mutate, the projects a call was
\* issued for (projectsToArchive, in order) and how each call has ended so far.
NoBatch == [running |-> FALSE, ids |-> {}, calls |-> <<>>, outcome |-> <<>>]

NoBatchToast == [title |-> <<>>, description |-> NONE, variant |-> NONE]

BatchStep(op, ids, calls, outcome, rejected, invalidated) ==
  [op |-> op, ids |-> ids, calls |-> calls, outcome |-> outcome,
   rejected |-> rejected, invalidated |-> invalidated]

QuietBatchStep(op) == BatchStep(op, {}, <<>>, <<>>, FALSE, <<>>)

\* ---------------------------------------- bulk archive: pure functions

\* archivableProjects
archivableProjects(ps) == SelectSeq(ps, LAMBDA p : p.status = "ACTIVE")

\* ProjectsPage: activeProjectCount
activeProjectCount(ps) == Len(SelectSeq(ps, LAMBDA p : p.status = "ACTIVE"))

IdsOf(ps) == {ps[i].id : i \in 1..Len(ps)}

\* allSelected
allSelected(ps, selected) ==
  /\ Len(archivableProjects(ps)) > 0
  /\ Cardinality(selected) = Len(archivableProjects(ps))

\* Mutant of projectsToArchive: the ids are looked up in the whole project
\* list, not in the archivable part of it.
projectsToArchiveOfAnyStatus(ps, projectIds) ==
  SelectSeq(ps, LAMBDA p : p.id \in projectIds)

\* mutationFn: projectsToArchive
projectsToArchive(ps, projectIds) ==
  SelectSeq(archivableProjects(ps), LAMBDA p : p.id \in projectIds)

\* Mutant of archiveProject: no try/catch, so a failed call rejects the promise.
archiveProjectWithoutCatch(project, outcome) ==
  IF outcome.kind = "ok"
  THEN [state |-> "fulfilled",
        value |-> [projectId |-> project.id, projectName |-> project.id,
                   success |-> TRUE, error |-> NONE]]
  ELSE [state |-> "rejected",
        value |-> [projectId |-> project.id, projectName |-> project.id,
                   success |-> FALSE, error |-> NONE]]

\* archiveProject: the settlement of the promise it returns, given how its
\* remote call ended.  The catch block turns every rejection into a result.
archiveProject(project, outcome) ==
  IF outcome.kind = "ok"
  THEN [state |-> "fulfilled",
        value |-> [projectId |-> project.id, projectName |-> project.id,
                   success |-> TRUE, error |-> NONE]]
  ELSE [state |-> "fulfilled",
        value |-> [projectId |-> project.id, projectName |-> project.id,
                   success |-> FALSE,
                   error |-> IF outcome.kind = "error" THEN outcome.message
                             ELSE "Unknown error occurred"]]

\* The promises of the calls that have ended.
Settled(calls, outcome) ==
  [i \in {j \in 1..Len(calls) : outcome[j] # Pending} |-> archiveProject(calls[i], outcome[i])]

\* Mutant of PromiseAll: settles like Promise.race over the calls, fulfilled
\* with the values so far as soon as one promise has settled.
PromiseAllSettlingEarly(calls, outcome) ==
  LET done == Settled(calls, outcome)
      ended == SelectSeq([i \in 1..Len(calls) |-> i], LAMBDA i : outcome[i] # Pending)
  IN IF \E i \in DOMAIN done : done[i].state = "rejected"
     THEN [state |-> "rejected", value |-> <<>>]
     ELSE IF ended # <<>> \/ calls = <<>>
     THEN [state |-> "fulfilled", value |-> [k \in 1..Len(ended) |-> done[ended[k]].value]]
     ELSE [state |-> "pending", value |-> <<>>]

\* Promise.all: rejected as soon as one promise is, fulfilled with every value
\* in call order once all are, pending otherwise.
PromiseAll(calls, outcome) ==
  LET done == Settled(calls, outcome)
  IN IF \E i \in DOMAIN done : done[i].state = "rejected"
     THEN [state |-> "rejected", value |-> <<>>]
     ELSE IF DOMAIN done = 1..Len(calls)
     THEN [state |-> "fulfilled", value |-> [i \in 1..Len(calls) |-> done[i].value]]
     ELSE [state |-> "pending", value |-> <<>>]

CountWhere(list, flag) == Len(SelectSeq(list, LAMBDA r : r.success = flag))

Plural(n) == IF n # 1 THEN "projects" ELSE "project"

\* Mutant of SummaryToast: the success count is the size of the result list.
SummaryToastCountingAll(archiveResults) ==
  LET successCount == Len(archiveResults)
      failureCount == CountWhere(archiveResults, FALSE)
  IN IF failureCount = 0
     THEN [title |-> <<"Successfully archived", successCount, Plural(successCount)>>,
           description |-> NONE, variant |-> NONE]
     ELSE [title |-> <<"Archived", successCount, Plural(successCount), failureCount, "failed">>,
           description |-> NONE, variant |-> "destructive"]

\* onSuccess: the summary notification.
SummaryToast(archiveResults) ==
  LET successCount == CountWhere(archiveResults, TRUE)
      failureCount == CountWhere(archiveResults, FALSE)
  IN IF failureCount = 0
     THEN [title |-> <<"Successfully archived", successCount, Plural(successCount)>>,
           description |-> NONE, variant |-> NONE]
     ELSE [title |-> <<"Archived", successCount, Plural(successCount), failureCount, "failed">>,
           description |-> NONE, variant |-> "destructive"]

\* onError: the aggregate notification.
BatchErrorToast ==
  [title |-> <<"Bulk archive failed">>, description |-> "error", variant |-> "destructive"]

\* ----------------------------------------------- bulk archive: actions

\* The selection view is on screen: the dialog is open and shows no results.
SelectionView == open /\ ~results.shown

\* ProjectsPage: the "Bulk Archive" button, shown while a project is ACTIVE.
OpenDialog ==
  /\ ~open
  /\ activeProjectCount(projects) > 0
  /\ open' = TRUE
  /\ batchLast' = QuietBatchStep("open")
  /\ batchToast' = NoBatchToast
  /\ UNCHANGED <<projectServer, projects, selectedIds, results, batch, projectsStale>>
  /\ UNCHANGED <<boardVars, authVars, gestureVars>>

\* Mutant of toggleSelection: the id is always added, never removed.
toggleSelectionAddOnly(projectId) ==
  /\ SelectionView
  /\ projectId \in IdsOf(archivableProjects(projects))
  /\ selectedIds' = selectedIds \cup {projectId}
  /\ batchLast' = BatchStep("toggle", {projectId}, <<>>, <<>>, FALSE, <<>>)
  /\ batchToast' = NoBatchToast
  /\ UNCHANGED <<projectServer, projects, open, results, batch, projectsStale>>
  /\ UNCHANGED <<boardVars, authVars, gestureVars>>

\* toggleSelection, from the checkbox of a listed (archivable) project.
toggleSelection(projectId) ==
  /\ SelectionView
  /\ projectId \in IdsOf(archivableProjects(projects))
  /\ selectedIds' = IF projectId \in selectedIds
                    THEN selectedIds \ {projectId}
                    ELSE selectedIds \cup {projectId}
  /\ batchLast' = BatchStep("toggle", {projectId}, <<>>, <<>>, FALSE, <<>>)
  /\ batchToast' = NoBatchToast
  /\ UNCHANGED <<projectServer, projects, open, results, batch, projectsStale>>
  /\ UNCHANGED <<boardVars, authVars, gestureVars>>

\* selectAll, from the button shown while not everything is selected.
selectAll ==
  /\ SelectionView
  /\ Len(archivableProjects(projects)) > 0
  /\ ~allSelected(projects, selectedIds)
  /\ selectedIds' = IdsOf(archivableProjects(projects))
  /\ batchLast' = QuietBatchStep("selectAll")
  /\ batchToast' = NoBatchToast
  /\ UNCHANGED <<projectServer, projects, open, results, batch, projectsStale>>
  /\ UNCHANGED <<boardVars, authVars, gestureVars>>

\* deselectAll, from the button shown while everything is selected.
deselectAll ==
  /\ SelectionView
  /\ allSelected(projects, selectedIds)
  /\ selectedIds' = {}
  /\ batchLast' = QuietBatchStep("deselectAll")
  /\ batchToast' = NoBatchToast
  /\ UNCHANGED <<projectServer, projects, open, results, batch, projectsStale>>
  /\ UNCHANGED <<boardVars, authVars, gestureVars>>

\* bulkArchiveMutation.onSuccess
onSuccess(ids, calls, outcome, archiveResults) ==
  /\ results' = Results(archiveResults)
  /\ projectsStale' = projectsStale \cup {"projects", "dashboard-stats"}
  /\ batchToast' = SummaryToast(archiveResults)
  /\ batchLast' = BatchStep("settled", ids, calls, outcome, FALSE,
                            <<"projects", "dashboard-stats">>)

\* bulkArchiveMutation.onError
onError(ids, calls, outcome) ==
  /\ batchToast' = BatchErrorToast
  /\ batchLast' = BatchStep("settled", ids, calls, outcome, TRUE, <<>>)
  /\ UNCHANGED <<results, projectsStale>>

\* Mutant of Settle: mutationFn throws when no call succeeded, so a run whose
\* items all failed ends in onError.
SettleRejectingAllFailed(ids, calls, outcome) ==
  LET all == PromiseAll(calls, outcome)
  IN /\ batch' = NoBatch
     /\ IF /\ all.state = "fulfilled"
           /\ (all.value = <<>> \/ \E i \in 1..Len(all.value) : all.value[i].success)
        THEN onSuccess(ids, calls, outcome, all.value)
        ELSE onError(ids, calls, outcome)

\* The mutation ends as Promise.all over its calls does.
Settle(ids, calls, outcome) ==
  LET all == PromiseAll(calls, outcome)
  IN /\ batch' = NoBatch
     /\ IF all.state = "fulfilled"
        THEN onSuccess(ids, calls, outcome, all.value)
        ELSE onError(ids, calls, outcome)

\* Mutant of ConfirmNothing: the guard on an empty selection is missing, so
\* the mutation runs over no ids and settles at once.
ConfirmNothingRunning ==
  /\ selectedIds = {}
  /\ Settle(selectedIds, <<>>, <<>>)

\* handleConfirm with nothing selected: `if (selectedIds.size === 0) return`.
ConfirmNothing ==
  /\ selectedIds = {}
  /\ batchLast' = QuietBatchStep("confirmNothing")
  /\ batchToast' = NoBatchToast
  /\ UNCHANGED <<results, batch, projectsStale>>

\* handleConfirm: results are cleared and the mutation starts, issuing one call
\* per project of projectsToArchive; with no such project Promise.all([]) is
\* fulfilled at once.
ConfirmSelection ==
  /\ selectedIds # {}
  /\ LET calls == projectsToArchive(projects, selectedIds)
         outcome == [i \in 1..Len(calls) |-> Pending]
     IN IF calls = <<>>
        THEN Settle(selectedIds, calls, outcome)
        ELSE /\ batch' = [running |-> TRUE, ids |-> selectedIds, calls |-> calls,
                          outcome |-> outcome]
             /\ results' = NoResults
             /\ batchLast' = BatchStep("run", selectedIds, calls, outcome, FALSE, <<>>)
             /\ batchToast' = NoBatchToast
             /\ UNCHANGED projectsStale

\* handleConfirm, from the confirm button: in the selection view, and disabled
\* while the mutation is pending.
handleConfirm ==
  /\ SelectionView
  /\ ~batch.running
  /\ \/ ConfirmNothing
     \/ ConfirmSelection
  /\ UNCHANGED <<projectServer, projects, open, selectedIds>>
  /\ UNCHANGED <<boardVars, authVars, gestureVars>>

\* Mutant of CallEnds: the queries are invalidated after every call, not once
\* per run.
CallEndsInvalidating(i, how) ==
  /\ batch.running
  /\ i \in 1..Len(batch.calls)
  /\ batch.outcome[i] = Pending
  /\ projectServer' = IF how = Fulfilled
                      THEN [projectServer EXCEPT ![batch.calls[i].id] = "ARCHIVED"]
                      ELSE projectServer
  /\ LET outcome == [batch.outcome EXCEPT ![i] = how]
     IN IF PromiseAll(batch.calls, outcome).state = "pending"
        THEN /\ batch' = [batch EXCEPT !.outcome = outcome]
             /\ batchLast' = BatchStep("callEnds", batch.ids, batch.calls, outcome, FALSE, <<>>)
             /\ batchToast' = NoBatchToast
             /\ projectsStale' = projectsStale \cup {"projects", "dashboard-stats"}
             /\ UNCHANGED results
        ELSE Settle(batch.ids, batch.calls, outcome)
  /\ UNCHANGED <<projects, open, selectedIds>>
  /\ UNCHANGED <<boardVars, authVars, gestureVars>>

\* The i-th call of the running mutation ends; a fulfilled call has archived
\* its project on the backend.  The mutation settles in the same turn when
\* Promise.all does.
CallEnds(i, how) ==
  /\ batch.running
  /\ i \in 1..Len(batch.calls)
  /\ batch.outcome[i] = Pending
  /\ projectServer' = IF how = Fulfilled
                      THEN [projectServer EXCEPT ![batch.calls[i].id] = "ARCHIVED"]
                      ELSE projectServer
  /\ LET outcome == [batch.outcome EXCEPT ![i] = how]
     IN IF PromiseAll(batch.calls, outcome).state = "pending"
        THEN /\ batch' = [batch EXCEPT !.outcome = outcome]
             /\ batchLast' = BatchStep("callEnds", batch.ids, batch.calls, outcome, FALSE, <<>>)
             /\ batchToast' = NoBatchToast
             /\ UNCHANGED <<results, projectsStale>>
        ELSE Settle(batch.ids, batch.calls, outcome)
  /\ UNCHANGED <<projects, open, selectedIds>>
  /\ UNCHANGED <<boardVars, authVars, gestureVars>>

\* handleClose: Cancel, Done, or the dialog's own close.
handleClose ==
  /\ open
  /\ selectedIds' = {}
  /\ results' = NoResults
  /\ open' = FALSE
  /\ batchLast' = QuietBatchStep("close")
  /\ batchToast' = NoBatchToast
  /\ UNCHANGED <<projectServer, projects, batch, projectsStale>>
  /\ UNCHANGED <<boardVars, authVars, gestureVars>>

\* The refetch asked for by invalidateQueries delivers the backend's project
\* list as the new `projects` prop.
ProjectsRefresh ==
  /\ "projects" \in projectsStale
  /\ projects' = ProjectList(projectServer)
  /\ projectsStale' = {}
  /\ batchLast' = QuietBatchStep("refresh")
  /\ batchToast' = NoBatchToast
  /\ UNCHANGED <<projectServer, open, selectedIds, results, batch>>
  /\ UNCHANGED <<boardVars, authVars, gestureVars>>

\* ----------------------------------------------------- auth: tokens

\* Number of distinct token values in the explored runs.
NumTokens == 2

TokenValues == <<"token1", "token2", "token3">>

Tokens == {TokenValues[i] : i \in 1..NumTokens}

TOKEN_STORAGE_KEY == "teamhub_auth_token"

REFRESH_TOKEN_KEY == "teamhub_refresh_token"

StorageKeys == {TOKEN_STORAGE_KEY, REFRESH_TOKEN_KEY}

\* The return URLs a login page can be opened with.
ReturnUrls == {NONE, "/portal/tasks"}

AuthStep(op, token) == [op |-> op, token |-> token]

\* localStorage.setItem / removeItem, behind the `typeof window` guard.
SetItem(storage, key, value) == IF hasWindow THEN [storage EXCEPT ![key] = value] ELSE storage

RemoveItem(storage, key) == IF hasWindow THEN [storage EXCEPT ![key] = NONE] ELSE storage

\* getStoredToken / getStoredRefreshToken
getStoredToken == IF hasWindow THEN localStorage[TOKEN_STORAGE_KEY] ELSE NONE

getStoredRefreshToken == IF hasWindow THEN localStorage[REFRESH_TOKEN_KEY] ELSE NONE

\* storeAuthToken
storeAuthToken(token) ==
  /\ localStorage' = SetItem(localStorage, TOKEN_STORAGE_KEY, token)
  /\ authLast' = AuthStep("storeAuthToken", token)
  /\ UNCHANGED <<hasWindow, returnUrl, isLoading, error, route>>
  /\ UNCHANGED <<boardVars, batchVars, gestureVars>>

\* storeRefreshToken
storeRefreshToken(token) ==
  /\ localStorage' = SetItem(localStorage, REFRESH_TOKEN_KEY, token)
  /\ authLast' = AuthStep("storeRefreshToken", token)
  /\ UNCHANGED <<hasWindow, returnUrl, isLoading, error, route>>
  /\ UNCHANGED <<boardVars, batchVars, gestureVars>>

\* clearAuthToken
clearAuthToken ==
  /\ localStorage' = RemoveItem(RemoveItem(localStorage, TOKEN_STORAGE_KEY), REFRESH_TOKEN_KEY)
  /\ authLast' = AuthStep("clearAuthToken", NONE)
  /\ UNCHANGED <<hasWindow, returnUrl, isLoading, error, route>>
  /\ UNCHANGED <<boardVars, batchVars, gestureVars>>

\* LoginPage onSubmit, up to the await: the form is submitted in a browser and
\* the button is disabled while a login is pending.
SubmitLogin ==
  /\ hasWindow
  /\ ~isLoading
  /\ isLoading' = TRUE
  /\ error' = NONE
  /\ authLast' = AuthStep("submit", NONE)
  /\ UNCHANGED <<hasWindow, localStorage, returnUrl, route>>
  /\ UNCHANGED <<boardVars, batchVars, gestureVars>>

\* LoginPage onSubmit, login resolved with a session: the token is stored and
\* the router is sent to the return URL or the dashboard.
LoginResolves(token) ==
  /\ isLoading
  /\ localStorage' = SetItem(localStorage, TOKEN_STORAGE_KEY, token)
  /\ route' = IF returnUrl # NONE THEN returnUrl ELSE "/portal/dashboard"
  /\ isLoading' = FALSE
  /\ authLast' = AuthStep("login", token)
  /\ UNCHANGED <<hasWindow, returnUrl, error>>
  /\ UNCHANGED <<boardVars, batchVars, gestureVars>>

\* LoginPage onSubmit, login rejected.
LoginRejects ==
  /\ isLoading
  /\ error' = "Invalid credentials. Please try again."
  /\ isLoading' = FALSE
  /\ authLast' = AuthStep("loginFailed", NONE)
  /\ UNCHANGED <<hasWindow, localStorage, returnUrl, route>>
  /\ UNCHANGED <<boardVars, batchVars, gestureVars>>

\* ----------------------------------------------------- specifications

InitBoard ==
  /\ server \in [TaskSet -> Statuses]
  /\ tasks = TaskList(server)
  /\ boardState = groupTasksByStatus(tasks)
  /\ dragState = NoDrag
  /\ dropTarget = NoTarget
  /\ inflight = <<>>
  /\ refreshPending = FALSE
  /\ crashed = FALSE
  /\ toast = NoToast
  /\ last = Step("mount", NONE, NONE, NONE, -1, NONE)

InitBatch ==
  /\ projectServer \in [ProjectSet -> ProjectStatuses]
  /\ projects = ProjectList(projectServer)
  /\ open = FALSE
  /\ selectedIds = {}
  /\ results = NoResults
  /\ batch = NoBatch
  /\ projectsStale = {}
  /\ batchToast = NoBatchToast
  /\ batchLast = QuietBatchStep("mount")

\* The projects page with every project ACTIVE, left alone.
BatchAtRest ==
  /\ projectServer = [p \in ProjectSet |-> "ACTIVE"]
  /\ projects = ProjectList(projectServer)
  /\ open = FALSE
  /\ selectedIds = {}
  /\ results = NoResults
  /\ batch = NoBatch
  /\ projectsStale = {}
  /\ batchToast = NoBatchToast
  /\ batchLast = QuietBatchStep("mount")

\* The task board with every task in the first column, left alone.
BoardAtRest ==
  /\ server = [t \in TaskSet |-> BOARD_COLUMNS[1]]
  /\ tasks = TaskList(server)
  /\ boardState = groupTasksByStatus(tasks)
  /\ dragState = NoDrag
  /\ dropTarget = NoTarget
  /\ inflight = <<>>
  /\ refreshPending = FALSE
  /\ crashed = FALSE
  /\ toast = NoToast
  /\ last = Step("mount", NONE, NONE, NONE, -1, NONE)

\* The board's operations in any order; no browser gesture is tracked.
NextBoard ==
  \/ \E status \in Statuses, index \in 0..NumTasks :
       handleDragStart(status, index) /\ UNCHANGED gestureVars
  \/ \E status \in Statuses, index \in 0..(NumTasks + 1) :
       handleDragOver(status, index) /\ UNCHANGED gestureVars
  \/ \E status \in Statuses, index \in 0..(NumTasks + 1) :
       handleDrop(status, index) /\ UNCHANGED gestureVars
  \/ handleDragCancel /\ UNCHANGED gestureVars
  \/ \E k \in 1..MaxInFlight : MutationSuccess(k)
  \/ \E k \in 1..MaxInFlight, message \in ErrorMessages : MutationError(k, message)
  \/ TasksRefresh

InitAuth ==
  /\ hasWindow \in BOOLEAN
  /\ localStorage = [k \in StorageKeys |-> NONE]
  /\ returnUrl \in ReturnUrls
  /\ isLoading = FALSE
  /\ error = NONE
  /\ route = NONE
  /\ authLast = AuthStep("load", NONE)

\* A freshly loaded page in a browser with empty storage, left alone.
AuthAtRest ==
  /\ hasWindow = TRUE
  /\ localStorage = [k \in StorageKeys |-> NONE]
  /\ returnUrl = NONE
  /\ isLoading = FALSE
  /\ error = NONE
  /\ route = NONE
  /\ authLast = AuthStep("load", NONE)

\* No drag gesture on the board.
GestureAtRest == pointer = NoPointer

\* The task board; the projects page is not touched.
Init == InitBoard /\ BatchAtRest /\ AuthAtRest /\ GestureAtRest

Next == NextBoard

Spec == Init /\ [][Next]_vars

NextBatch ==
  \/ OpenDialog
  \/ \E projectId \in ProjectSet : toggleSelection(projectId)
  \/ selectAll
  \/ deselectAll
  \/ handleConfirm
  \/ \E i \in 1..NumProjects, how \in Outcomes : CallEnds(i, how)
  \/ handleClose
  \/ ProjectsRefresh

\* The bulk-archive dialog on the projects page; the task board is not touched.
BatchInit == InitBatch /\ BoardAtRest /\ AuthAtRest /\ GestureAtRest

BatchSpec == BatchInit /\ [][NextBatch]_vars

NextAuth ==
  \/ \E token \in Tokens : storeAuthToken(token)
  \/ \E token \in Tokens : storeRefreshToken(token)
  \/ clearAuthToken
  \/ SubmitLogin
  \/ \E token \in Tokens : LoginResolves(token)
  \/ LoginRejects

\* The login page and the token store; board and dialog are not touched.
AuthInit == InitAuth /\ BoardAtRest /\ BatchAtRest /\ GestureAtRest

AuthSpec == AuthInit /\ [][NextAuth]_vars

\* A board of ReorderTasks tasks as first rendered.
ReorderInit ==
  /\ server \in [{TaskIds[i] : i \in 1..ReorderTasks} -> Statuses]
  /\ tasks = [i \in 1..ReorderTasks |-> [id |-> TaskIds[i], status |-> server[TaskIds[i]]]]
  /\ boardState = groupTasksByStatus(tasks)
  /\ dragState = NoDrag
  /\ dropTarget = NoTarget
  /\ inflight = <<>>
  /\ refreshPending = FALSE
  /\ crashed = FALSE
  /\ toast = NoToast
  /\ last = Step("mount", NONE, NONE, NONE, -1, NONE)
  /\ BatchAtRest /\ AuthAtRest /\ GestureAtRest

\* Drag starts and drops on that board; no request is answered.
NextReorder ==
  \/ \E status \in Statuses, index \in 0..ReorderTasks :
       handleDragStart(status, index) /\ UNCHANGED gestureVars
  \/ \E status \in Statuses, index \in 0..ReorderTasks :
       handleDrop(status, index) /\ UNCHANGED gestureVars

ReorderSpec == ReorderInit /\ [][NextReorder]_vars

\* The board's handlers in the order the browser's drag events call them.  No
\* request is ever issued in these behaviours, so no request settles and no
\* refetch is delivered.
NextGesture ==
  \/ \E status \in Statuses, index \in 0..NumTasks : onDragStart(status, index)
  \/ \E status \in Statuses : onDragOver(status)
  \/ \E status \in Statuses : onDragLeave(status)
  \/ \E status \in Statuses : onDrop(status)
  \/ DragEndsOutside

GestureInit == InitBoard /\ BatchAtRest /\ AuthAtRest /\ GestureAtRest

\* The task board driven by drag gestures.
GestureSpec == GestureInit /\ [][NextGesture]_vars

\* ------------------------------------------------- board: properties

\* The places (column, position) of a board.
Places(board) == UNION {{<<s, i>> : i \in 1..Len(board[s])} : s \in Statuses}

\* How many entries of a board carry an id.
Occurrences(board, id) ==
  Cardinality({p \in Places(board) : board[p[1]][p[2]].id = id})

\* The columns of a board that hold an entry with an id.
ColumnsOf(board, id) ==
  {s \in Statuses : \E i \in 1..Len(board[s]) : board[s][i].id = id}

IdSet(arr) == {arr[i].id : i \in 1..Len(arr)}

\* C1 (as claimed): in every reachable state every item of the authoritative
\* list appears exactly once on the board, in one column, and no column
\* holds an undefined entry.
C1_EveryItemInExactlyOneColumn ==
  /\ \A i \in 1..Len(tasks) : Occurrences(boardState, tasks[i].id) = 1
  /\ \A s \in Statuses : Undefined \notin Range(boardState[s])

C4_AtMostOneRequestInFlight == Len(inflight) <= 1

\* C4 (amended): a request is issued only by a drop that consumes the one
\* pending move, one request per drop; requests of successive drops may be in
\* flight together.
C4_EachRequestConsumesThePendingMove ==
  [][Len(inflight') > Len(inflight) =>
       /\ Len(inflight') = Len(inflight) + 1
       /\ dragState # NoDrag
       /\ dragState' = NoDrag
       /\ inflight'[Len(inflight')].taskId = dragState.taskId]_vars

\* C4 witness: two requests in flight, the second issued while the first was
\* unsettled.
C4_TwoInFlight == Len(inflight) = 2 /\ last.op = "dropCross"

C7_SameColumnDropOnlyReorders ==
  [][last'.op = "dropSame" =>
       /\ Len(boardState'[last'.to]) = Len(boardState[last'.to])
       /\ Range(boardState'[last'.to]) = Range(boardState[last'.to])
       /\ \A s \in Statuses \ {last'.to} : boardState'[s] = boardState[s]
       /\ inflight' = inflight]_vars

\* C8 (as claimed): right after a status update succeeded, the item of the
\* request is on the board exactly once, in the target column, with the
\* target status.
C8_SucceededMoveShownInTarget ==
  last.op = "success" =>
    /\ Occurrences(boardState, last.taskId) = 1
    /\ [id |-> last.taskId, status |-> last.to] \in Range(boardState[last.to])

\* C8 (amended): right after a status update succeeded the server holds the
\* target status for the item and a refetch is pending; right after a refetch
\* is delivered every item is on the board exactly once, in the column of its
\* server-side status, with that status.
C8_SucceededMoveShownAfterRefetch ==
  /\ last.op = "success" => (server[last.taskId] = last.to /\ refreshPending)
  /\ last.op = "refresh" =>
       \A t \in TaskSet :
         /\ Occurrences(boardState, t) = 1
         /\ [id |-> t, status |-> server[t]] \in Range(boardState[server[t]])

\* C8 witness, Scenario A after the refetch: T1 moved to IN_PROGRESS on the
\* server and on the board, T2 alone in TODO.
C8_ScenarioA ==
  /\ last.op = "refresh"
  /\ server["T1"] = "IN_PROGRESS"
  /\ boardState["TODO"] = <<[id |-> "T2", status |-> "TODO"]>>
  /\ boardState["IN_PROGRESS"] = <<[id |-> "T1", status |-> "IN_PROGRESS"]>>

\* C9 (as claimed): right after a cross-column drop was handled, the dragged
\* item is in the target column at the target index with the target status,
\* is gone from the source column, and its request is in flight.
C9_CrossColumnDropIsOptimistic ==
  last.op \in {"dropCross", "dropMissing"} =>
    /\ ElemAt(boardState[last.to], last.index) = [id |-> last.taskId, status |-> last.to]
    /\ last.taskId \notin IdSet(boardState[last.from])
    /\ inflight # <<>>
    /\ inflight[Len(inflight)] = [taskId |-> last.taskId, status |-> last.to]

\* C11 (as claimed): right after a drop was handled while a move was pending,
\* in either branch and whatever the recorded index holds, the pending move
\* and the drop-target highlight are both cleared.
C11_DropAlwaysClearsDragState ==
  last.op \in {"dropSame", "dropCross", "dropMissing"} =>
    /\ dragState = NoDrag
    /\ dropTarget = NoTarget


\* The position of a task record in a task list (0 when absent).
PositionIn(ts, t) == IF \E k \in 1..Len(ts) : ts[k] = t
                     THEN CHOOSE k \in 1..Len(ts) : ts[k] = t
                     ELSE 0

\* A board is the wholesale rebuild of a task list: every entry of column s
\* is a record of the list with status s, every record of the list is in its
\* status' column exactly once, and each column is in the order of the list.
RebuiltFrom(board, ts) ==
  \A s \in Statuses :
    /\ \A i \in 1..Len(board[s]) :
         PositionIn(ts, board[s][i]) > 0 /\ board[s][i].status = s
    /\ \A k \in 1..Len(ts) :
         ts[k].status = s =>
           Cardinality({i \in 1..Len(board[s]) : board[s][i] = ts[k]}) = 1
    /\ \A i, j \in 1..Len(board[s]) :
         i < j => PositionIn(ts, board[s][i]) < PositionIn(ts, board[s][j])

\* C15: every step that gives the board a task list (a changed list, or any
\* delivered refetch) leaves the board rebuilt wholesale from that list,
\* whatever local reorder or optimistic move the board showed before.
C15_ListChangeRebuildsBoard ==
  [][(tasks' # tasks \/ last'.op = "refresh") => RebuiltFrom(boardState', tasks')]_vars

\* C15 witness: a refetch was delivered while a request was still in flight,
\* and the board no longer shows that request's optimistic move.
C15_OptimisticMoveDiscarded ==
  /\ last.op = "refresh"
  /\ \E k \in 1..Len(inflight) :
       ColumnsOf(boardState, inflight[k].taskId) # {inflight[k].status}


C17_OneRequestPerDropNoRetry ==
  [][/\ last'.op \in {"dropCross", "dropMissing"} =>
          inflight' = Append(inflight, [taskId |-> last'.taskId, status |-> last'.to])
     /\ last'.op \notin {"dropCross", "dropMissing"} => Len(inflight') <= Len(inflight)
     /\ last'.op = "error" =>
          /\ \E k \in 1..Len(inflight) :
               /\ inflight' = SpliceOut(inflight, k - 1)
               /\ inflight[k] = [taskId |-> last'.taskId, status |-> last'.to]
          /\ RebuiltFrom(boardState', tasks')
          /\ toast'.variant = "destructive"
          /\ toast'.description = last'.err]_vars

\* C18: the step that handles a success leaves the board and the task list
\* as they are and invalidates the task list exactly once, so a refetch is
\* outstanding; the step that handles a failure invalidates nothing.
C18_SuccessInvalidatesOnceFailureNever ==
  [][/\ last'.op = "success" =>
          /\ boardState' = boardState
          /\ tasks' = tasks
          /\ last'.invalidated = 1
          /\ refreshPending'
     /\ last'.op = "error" =>
          /\ last'.invalidated = 0
          /\ refreshPending' = refreshPending]_vars

\* C18 witness: a success was just handled: the board still shows the
\* optimistic move that the delivered task list does not have yet, and the
\* refetch is outstanding.
C18_SuccessKeepsOptimisticBoard ==
  /\ last.op = "success"
  /\ last.invalidated = 1
  /\ refreshPending
  /\ [id |-> last.taskId, status |-> last.to] \in Range(boardState[last.to])
  /\ \E k \in 1..Len(tasks) : tasks[k].id = last.taskId /\ tasks[k].status # last.to


\* C19 (as claimed): cancelDrag clears the pending move and the highlight and
\* leaves the board, the task list and the requests in flight alone; and
\* called while no move is pending it changes no state at all.
C19_CancelClearsAndIsNoOpWithoutDrag ==
  [][last'.op = "dragCancel" =>
       /\ dragState' = NoDrag
       /\ dropTarget' = NoTarget
       /\ boardState' = boardState
       /\ tasks' = tasks
       /\ inflight' = inflight
       /\ refreshPending' = refreshPending
       /\ dragState = NoDrag => dropTarget' = dropTarget]_vars


\* C23: a drag start leaves exactly the move it was called with as the one
\* pending move, whatever move was pending before, and leaves the board, the
\* highlight, the task list and the requests in flight unchanged.
C23_BeginDragOnlyRecordsTheMove ==
  [][last'.op = "dragStart" =>
       /\ dragState' = [taskId |-> last'.taskId, sourceStatus |-> last'.from,
                        sourceIndex |-> last'.index]
       /\ ElemAt(boardState[last'.from], last'.index).id = last'.taskId
       /\ boardState' = boardState
       /\ dropTarget' = dropTarget
       /\ inflight' = inflight
       /\ tasks' = tasks
       /\ server' = server
       /\ refreshPending' = refreshPending
       /\ toast' = NoToast]_vars

\* C23 witness: a drag of T2 started while a column was highlighted and a
\* request was in flight; both are still there.
C23_DragStartedOverHighlight ==
  /\ last.op = "dragStart"
  /\ dragState.taskId = "T2"
  /\ dropTarget # NoTarget
  /\ inflight # <<>>


\* C25: a gesture that starts on a card of column S, leaves S, moves over
\* another column T and drops there still has its pending move when the drop
\* is handled: the card is moved optimistically into T and one status-update
\* request for it is issued.
C25_PendingMoveSurvivesLeavingTheColumn ==
  [][(/\ pointer # NoPointer
      /\ pointer' = NoPointer
      /\ pointer.over \notin {NONE, pointer.source})
       => /\ dragState # NoDrag
          /\ dragState.taskId = pointer.item
          /\ last'.op = "dropCross"
          /\ inflight' = Append(inflight, [taskId |-> pointer.item, status |-> pointer.over])
          /\ pointer.item \in IdSet(boardState'[pointer.over])]_vars

\* The sequence s without its k-th element (k counted from 1).
Without(s, k) == [i \in 1..(Len(s) - 1) |-> IF i < k THEN s[i] ELSE s[i + 1]]

\* The ids of a column, in order.
IdsIn(arr) == [i \in 1..Len(arr) |-> arr[i].id]

\* C26: a same-column drop with the recorded index inside the column yields the
\* column with the element at sourceIndex removed and reinserted at
\* targetIndex: the element sits at targetIndex (last, when targetIndex is the
\* column length), the other elements keep their order, the other columns
\* are untouched; Scenario D turns [T1,T2,T3] into [T3,T1,T2].
C26_SameColumnDropRemovesAndReinserts ==
  [][(last'.op = "dropSame" /\ dragState.sourceIndex < Len(boardState[last'.to]))
       => LET column == boardState[last'.to]
              after == boardState'[last'.to]
              from == dragState.sourceIndex + 1
              at == Min(last'.index, Len(column) - 1) + 1
          IN /\ Len(after) = Len(column)
             /\ after[at] = column[from]
             /\ Without(after, at) = Without(column, from)
             /\ last'.index = Len(column) => after[Len(after)] = column[from]
             /\ \A s \in Statuses \ {last'.to} : boardState'[s] = boardState[s]
             /\ (IdsIn(column) = <<"T1", "T2", "T3">> /\ from = 3 /\ last'.index = 0)
                  => IdsIn(after) = <<"T3", "T1", "T2">>]_vars

\* C26 witness: Scenario D has just been carried out.
C26_ScenarioD ==
  /\ last.op = "dropSame"
  /\ last.taskId = "T3"
  /\ last.to = "TODO"
  /\ last.index = 0
  /\ IdsIn(boardState["TODO"]) = <<"T3", "T1", "T2">>

\* C27: in every cross-column drop that moves something, the item removed
\* from the source column, the item inserted into the target column and the
\* item of the request are the item recorded at drag start, whatever happened
\* to the board in between.
C27_DropMovesTheRecordedItem ==
  [][last'.op = "dropCross"
       => /\ IdSet(boardState[last'.from]) \ IdSet(boardState'[last'.from]) = {dragState.taskId}
          /\ ElemAt(boardState'[last'.to],
                    Min(last'.index, Len(boardState[last'.to]))).id = dragState.taskId
          /\ inflight'[Len(inflight')].taskId = dragState.taskId]_vars

\* C30: in every reachable board every entry of every column is an item whose
\* status is the column's status.
C30_ColumnKeyMatchesItemStatus ==
  \A s \in Statuses : \A i \in 1..Len(boardState[s]) :
    /\ boardState[s][i].id \in TaskSet
    /\ boardState[s][i].status = s

\* ------------------------------------------ bulk archive: properties

\* C3 (as claimed): a settled batch has exactly one result per id passed to
\* the run.
C3_OneResultPerSelectedId ==
  batchLast.op = "settled" =>
    /\ results.shown
    /\ Len(results.list) = Cardinality(batchLast.ids)
    /\ \A id \in batchLast.ids :
         Cardinality({i \in 1..Len(results.list) : results.list[i].projectId = id}) = 1

\* C6: a settled batch was not rejected, every call it issued ended on its
\* own, and the i-th result records the i-th call: success exactly when the
\* call was fulfilled, and otherwise the error's message.
C6_PerItemFailureIsolated ==
  /\ batch.running => Len(batch.outcome) = Len(batch.calls)
  /\ batchLast.op = "settled" =>
       /\ ~batchLast.rejected
       /\ results.shown
       /\ Len(results.list) = Len(batchLast.calls)
       /\ \A i \in 1..Len(batchLast.calls) :
            /\ batchLast.outcome[i] # Pending
            /\ results.list[i].projectId = batchLast.calls[i].id
            /\ results.list[i].success = (batchLast.outcome[i] = Fulfilled)
            /\ batchLast.outcome[i].kind = "error" =>
                 results.list[i].error = batchLast.outcome[i].message
            /\ batchLast.outcome[i] # Fulfilled => results.list[i].error # NONE

\* C6 witness: a settled batch in which one call failed and another succeeded.
C6_MixedBatchSettled ==
  /\ batchLast.op = "settled"
  /\ \E i, j \in 1..Len(batchLast.calls) :
       /\ batchLast.outcome[i].kind = "error"
       /\ batchLast.outcome[j] = Fulfilled
       /\ results.list[j].success

\* C10 (as claimed): while the dialog is closed its results stay empty.
C10_ClosedDialogKeepsResultsEmpty == ~open => results = NoResults

\* C12: while a run is in flight no result list is shown, and whatever step
\* shows a result list, emits the summary notification or requests a refresh
\* is the settlement of a run all of whose calls have ended.
C12_AggregateOnlyAfterAllSettled ==
  /\ [](batch.running => ~results.shown)
  /\ [][((results'.shown /\ results' # results)
          \/ batchToast' # NoBatchToast
          \/ projectsStale' \ projectsStale # {}) =>
         /\ batchLast'.op = "settled"
         /\ ~batch'.running
         /\ \A i \in 1..Len(batchLast'.calls) : batchLast'.outcome[i] # Pending
         /\ Len(results'.list) = Len(batchLast'.calls)]_vars

\* C12 witness: a run of two calls in flight whose first call has failed while
\* the second is still pending, and no result list is shown.
C12_FirstFailedOtherInFlight ==
  /\ batch.running
  /\ Len(batch.calls) = 2
  /\ batch.outcome[1].kind = "error"
  /\ batch.outcome[2] = Pending
  /\ ~results.shown
  /\ batchToast = NoBatchToast

\* C13: a settled run has invalidated the project list and the dashboard
\* statistics exactly once each, whatever its size and however many of its
\* calls failed, and no step other than a run's settlement requests a refresh.
C13_RefreshOncePerBatch ==
  /\ [](batchLast.op = "settled" =>
          /\ batchLast.invalidated = <<"projects", "dashboard-stats">>
          /\ {"projects", "dashboard-stats"} \subseteq projectsStale)
  /\ [][batchLast'.op # "settled" => projectsStale' \subseteq projectsStale]_vars

\* C13 witness: a run of two calls settled with both calls failed, and both
\* refreshes are outstanding.
C13_AllFailedBatchRefreshed ==
  /\ batchLast.op = "settled"
  /\ Len(batchLast.calls) = 2
  /\ \A i \in 1..2 : batchLast.outcome[i] \notin {Fulfilled, Pending}
  /\ batchLast.invalidated = <<"projects", "dashboard-stats">>
  /\ projectsStale = {"projects", "dashboard-stats"}

\* The numbers of success=true and success=false entries of a result list.
Succeeded(list) == Cardinality({i \in 1..Len(list) : list[i].success})

Failed(list) == Cardinality({i \in 1..Len(list) : ~list[i].success})

\* C14: the summary of a settled run follows the class of its result list:
\* with no failed entry the full-success message carrying the succeeded
\* count; with failed entries the destructive message carrying the succeeded
\* and the failed count (a succeeded count of 0 is the full failure); the
\* counts are those of the success=true and success=false entries and sum to
\* the size of the list.
C14_SummaryMatchesResults ==
  batchLast.op = "settled" =>
    LET s == Succeeded(results.list)
        f == Failed(results.list)
    IN /\ results.shown
       /\ s + f = Len(results.list)
       /\ f = 0 =>
            /\ batchToast.title = <<"Successfully archived", s, Plural(s)>>
            /\ batchToast.variant = NONE
       /\ f > 0 =>
            /\ batchToast.title = <<"Archived", s, Plural(s), f, "failed">>
            /\ batchToast.variant = "destructive"

\* C14 witness, Scenario C: the run over A, B, C in which B's call failed has
\* settled with results [A ok, B failed, C ok] and the summary reports 2
\* archived, 1 failed.
C14_ScenarioC ==
  /\ batchLast.op = "settled"
  /\ Len(results.list) = 3
  /\ [i \in 1..3 |-> results.list[i].projectId] = <<"A", "B", "C">>
  /\ [i \in 1..3 |-> results.list[i].success] = <<TRUE, FALSE, TRUE>>
  /\ results.list[2].error = "network error"
  /\ batchToast.title = <<"Archived", 2, "projects", 1, "failed">>

C21_EmptySelectionRunsNothing ==
  [][/\ (batchLast'.op \in {"confirmNothing", "run", "settled"}
         /\ ~batch.running /\ selectedIds = {}) =>
          /\ batchLast'.op = "confirmNothing"
          /\ batch' = batch
          /\ results' = results
          /\ selectedIds' = selectedIds
          /\ projectServer' = projectServer
          /\ projectsStale' = projectsStale
          /\ batchToast' = NoBatchToast
     /\ batchLast'.op \in {"run", "settled"} => batchLast'.ids # {}
     /\ batch'.running => batch'.ids # {}]_vars

\* C21 witness: the confirm handler ran in the open selection view with
\* nothing selected and nothing started.
C21_ConfirmedNothing ==
  /\ batchLast.op = "confirmNothing"
  /\ open
  /\ selectedIds = {}
  /\ ~results.shown
  /\ ~batch.running

\* The ids of the ACTIVE projects of a project list.
EligibleIds(ps) == {ps[i].id : i \in {j \in 1..Len(ps) : ps[j].status = "ACTIVE"}}

\* C22: a toggle changes the selection in exactly the toggled id, which is
\* selected afterwards iff it was not before; select-all makes the selection
\* the set of ACTIVE project ids; deselect-all empties it; and none of the
\* three touches results, the run, the server or the pending refreshes.
C22_SelectionIsSetManipulation ==
  [][/\ batchLast'.op = "toggle" =>
          \E id \in batchLast'.ids :
            /\ batchLast'.ids = {id}
            /\ selectedIds' \ {id} = selectedIds \ {id}
            /\ (id \in selectedIds') = (id \notin selectedIds)
     /\ batchLast'.op = "selectAll" => selectedIds' = EligibleIds(projects)
     /\ batchLast'.op = "deselectAll" => selectedIds' = {}
     /\ batchLast'.op \in {"toggle", "selectAll", "deselectAll"} =>
          /\ results' = results
          /\ batch' = batch
          /\ projectServer' = projectServer
          /\ projects' = projects
          /\ projectsStale' = projectsStale
          /\ batchToast' = NoBatchToast]_vars

\* C22 witness: A was just toggled off while B stays selected.
C22_ToggledOffKeepingOthers ==
  /\ batchLast.op = "toggle"
  /\ batchLast.ids = {"A"}
  /\ "A" \notin selectedIds
  /\ "B" \in selectedIds

\* -------------------------------------------------- auth: properties

\* C24 (as claimed): localStorage never holds the auth token nor the refresh
\* token.
C24_NoTokenInLocalStorage ==
  /\ localStorage[TOKEN_STORAGE_KEY] = NONE
  /\ localStorage[REFRESH_TOKEN_KEY] = NONE

\* The statuses a project list shows for an id.
StatusesIn(ps, id) == {ps[i].status : i \in {j \in 1..Len(ps) : ps[j].id = id}}

\* C28: the step that starts a run issues requests only for projects that are
\* among the ids passed to it and ACTIVE in the project list at that moment,
\* one request per project at most; a project the list shows as ARCHIVED or
\* COMPLETED gets none.  No request is added while the run goes on.
C28_RequestsOnlyForSelectedActiveProjects ==
  [][/\ (~batch.running /\ batchLast'.op \in {"run", "settled"})
          => LET calls == batchLast'.calls
             IN /\ batchLast'.ids = selectedIds
                /\ \A i \in 1..Len(calls) :
                      /\ calls[i].id \in selectedIds
                      /\ StatusesIn(projects, calls[i].id) = {"ACTIVE"}
                /\ \A i, j \in 1..Len(calls) : calls[i].id = calls[j].id => i = j
                /\ batch'.running => batch'.calls = calls
     /\ (batch.running /\ batch'.running) => batch'.calls = batch.calls]_vars

\* C28 witness: a run has just started whose ids include a project the list
\* no longer shows as ACTIVE; that project got no request, the others did.
C28_RunSkippingInactiveId ==
  /\ batchLast.op = "run"
  /\ batch.running
  /\ batch.calls # <<>>
  /\ \E id \in batch.ids : StatusesIn(projects, id) # {"ACTIVE"}

\* C29: in every reachable state the selection holds only ids of projects the
\* current list shows as ACTIVE; so "all selected" is shown exactly when every
\* such project is selected, and no more ids are selected than are eligible.
C29_SelectionWithinEligible ==
  /\ selectedIds \subseteq EligibleIds(projects)
  /\ allSelected(projects, selectedIds)
       <=> (EligibleIds(projects) # {} /\ EligibleIds(projects) \subseteq selectedIds)
  /\ Cardinality(selectedIds) <= Cardinality(EligibleIds(projects))

====
